---- MODULE Spec2Model ----
(***************************************************************************)
(* A model of juju/client/facade.py: the versioned kind registry, the      *)
(* schema walk (buildDefinitions / buildObject / buildArray), the record   *)
(* type synthesizer (buildTypes, Args, name_to_py), the operation stubs    *)
(* (makeFunc) and the reply mapping (Type._map / Type.from_json).          *)
(*                                                                         *)
(* Strings that the code inspects character by character (field and type   *)
(* names) are sequences of one-character strings.  Python exceptions are   *)
(* modelled by their class name in an `err` field; "" means no exception.  *)
(***************************************************************************)
EXTENDS Integers, Sequences, FiniteSets, TLC

VARIABLES
    registry,   \* _registry : name -> (version -> [object |-> field list])
    types,      \* _types    : the reference names that own a TypeVar handle
    classes,    \* classes   : name -> synthesized class
    schemas,    \* the Schema objects generate_facacdes works on
    pc,         \* position of generate_facacdes
    si,         \* index of the schema at hand
    di,         \* index of the definition at hand in buildDefinitions
    result,     \* the local `result` of buildDefinitions
    kinds,      \* the sorted list buildTypes iterates over
    ki,         \* index into kinds
    err,        \* the exception that ended generate_facacdes, "" if none
    call,       \* the latest KindRegistry call made by a client, with its value
    ret,        \* the latest stub call: the reply handed in and what _map gave
    calls       \* the number of stub calls made

vars == <<registry, types, classes, schemas, pc, si, di, result, kinds, ki,
          err, call, ret, calls>>

----------------------------------------------------------------------------
(* Bounds of the model *)

MaxVersion == 2
MaxNameLen == 2
MaxDefs == 2
RecursionLimit == 4
MaxCalls == 1

----------------------------------------------------------------------------
(* Names *)

nA == <<"A">>
nB == <<"B">>
nError == <<"E", "r", "r", "o", "r">>
TypeNames == {nA, nB, nError}

Versions == 1..MaxVersion

\* `version=None`, the omitted argument of lookup and getObj
NoVersion == -1

\* str.lower, on the characters the model uses
Lower(c) ==
    CASE c = "A" -> "a"
      [] c = "B" -> "b"
      [] c = "E" -> "e"
      [] c = "I" -> "i"
      [] OTHER -> c

\* keyword.kwlist (Python 3.5), the words of at most three letters
kwlist ==
    { <<"a","s">>, <<"i","f">>, <<"i","n">>, <<"i","s">>, <<"o","r">>,
      <<"a","n","d">>, <<"d","e","f">>, <<"d","e","l">>, <<"f","o","r">>,
      <<"n","o","t">>, <<"t","r","y">> }

\* dir(builtins), the lower-case names of at most three letters
dir_builtins ==
    { <<"i","d">>,
      <<"a","b","s">>, <<"a","l","l">>, <<"a","n","y">>, <<"b","i","n">>,
      <<"c","h","r">>, <<"d","i","r">>, <<"h","e","x">>, <<"i","n","t">>,
      <<"l","e","n">>, <<"m","a","p">>, <<"m","a","x">>, <<"m","i","n">>,
      <<"o","c","t">>, <<"o","r","d">>, <<"p","o","w">>, <<"s","e","t">>,
      <<"s","t","r">>, <<"s","u","m">>, <<"z","i","p">> }

RECURSIVE MapChars(_, _)
MapChars(s, dash) ==
    IF s = <<>> THEN <<>>
    ELSE <<IF dash /\ Head(s) = "-" THEN "_"
           ELSE IF ~dash THEN Lower(Head(s)) ELSE Head(s)>>
         \o MapChars(Tail(s), dash)

name_to_py(name) ==
    LET replaced == MapChars(name, TRUE)
        lowered == MapChars(replaced, FALSE)
    IN  IF lowered \in kwlist \/ lowered \in dir_builtins
        THEN Append(lowered, "_")
        ELSE lowered

----------------------------------------------------------------------------
(* KindRegistry *)

SetMax(S) == CHOOSE x \in S : \A y \in S : y <= x

register(reg, name, version, obj) ==
    [m \in (DOMAIN reg) \cup {name} |->
        IF m = name THEN (version :> [object |-> obj]) ELSE reg[m]]

\* The value of a lookup: an exception, None, or the entry.
LookupNone == [err |-> "", none |-> TRUE, object |-> <<>>]
LookupRaise(e) == [err |-> e, none |-> TRUE, object |-> <<>>]
LookupEntry(entry) == [err |-> "", none |-> FALSE, object |-> entry.object]

lookup(reg, name, version) ==
    IF name \notin DOMAIN reg \/ DOMAIN reg[name] = {}
    THEN LookupNone
    ELSE LET versions == reg[name] IN
         IF version # NoVersion /\ version # 0
         THEN IF version \in DOMAIN versions
              THEN LookupEntry(versions[version])
              ELSE LookupRaise("KeyError")
         ELSE LookupEntry(versions[SetMax(DOMAIN versions)])

\* getObj returns the field list, or None; a KeyError of lookup passes through.
getObj(reg, name, version) == lookup(reg, name, version)

----------------------------------------------------------------------------
(* Types of fields *)

\* SCHEMA_TO_PYTHON; not in its domain: SCHEMA_TO_PYTHON.get gives None
SCHEMA_TO_PYTHON ==
    [kind \in {"string", "integer", "float", "number", "boolean", "object"} |->
        CASE kind = "string" -> <<"str">>
          [] kind = "integer" -> <<"int">>
          [] kind = "float" -> <<"float">>
          [] kind = "number" -> <<"float">>
          [] kind = "boolean" -> <<"bool">>
          [] kind = "object" -> <<"Any">>]

basic_types == {<<"str">>, <<"bool">>, <<"int">>, <<"float">>}

\* TypeVar(refname); str() of it is "~" + refname
TypeVarOf(refname) == <<"~">> \o refname
IsTypeVar(kind) == kind # <<>> /\ Head(kind) = "~"
SequenceOf(kind) == <<"Sequence">> \o kind
MappingOf(kind) == <<"Mapping">> \o kind
IsGeneric(kind) == kind # <<>> /\ Head(kind) \in {"Sequence", "Mapping"}

----------------------------------------------------------------------------
(* The interface-definition document *)

\* A "$ref" string: the prefix "#/definitions/" and the name after it.
Ref(name) == <<"#/definitions/">> \o name

\* A node of the document.  type = "" and ref = <<>> stand for an absent
\* "type" and "$ref" key; items holds the "items" node, if any.
Node(type, ref, properties, patternProperties, items) ==
    [type |-> type, ref |-> ref, properties |-> properties,
     patternProperties |-> patternProperties, items |-> items]

Prim(kind) == Node(kind, <<>>, <<>>, <<>>, <<>>)
RefNode(name) == Node("", Ref(name), <<>>, <<>>, <<>>)
Object(properties) == Node("object", <<>>, properties, <<>>, <<>>)
PatternObject(patternProperties) ==
    Node("object", <<>>, <<>>, patternProperties, <<>>)
Array(items) == Node("array", <<>>, <<>>, <<>>, <<items>>)

\* Schema.referenceName
referenceName(ref) ==
    IF ref # <<>> /\ Head(ref) = "#/definitions/" THEN Tail(ref) ELSE ref

\* TypeRegistry.get: the handle, and the reference name that now owns one
getRefType(ref) == TypeVarOf(referenceName(ref))

\* The value of a builder: an exception, or the value built together with the
\* reference names that TypeRegistry.get was asked for on the way.
Built(val, refs) == [err |-> "", val |-> val, refs |-> refs]
BuildRaise(e, refs) == [err |-> e, val |-> <<>>, refs |-> refs]

objType(obj) ==
    IF obj.type = "" THEN BuildRaise("ValueError", {})
    ELSE IF obj.type \notin DOMAIN SCHEMA_TO_PYTHON
         THEN BuildRaise("ValueError", {})
         ELSE Built(SCHEMA_TO_PYTHON[obj.type], {})

RECURSIVE buildArray(_)
buildArray(obj) ==
    IF obj.ref # <<>>
    THEN Built(SequenceOf(getRefType(obj.ref)), {referenceName(obj.ref)})
    ELSE IF obj.type = "array"
         THEN IF obj.items = <<>>
              THEN BuildRaise("KeyError", {})
              ELSE buildArray(obj.items[1])
         ELSE LET t == objType(obj) IN
              IF t.err # "" THEN t ELSE Built(SequenceOf(t.val), {})

HasKey(dict, key) == \E i \in DOMAIN dict : dict[i][1] = key
Get(dict, key) == dict[CHOOSE i \in DOMAIN dict : dict[i][1] = key][2]

RECURSIVE buildObject(_, _)
RECURSIVE buildProperties(_, _, _)

\* the loop over props of buildObject, from property i on; acc is the struct
\* built so far
buildProperties(props, i, acc) ==
    IF i > Len(props) THEN acc
    ELSE LET p == props[i][1]
             prop == props[i][2]
             one == IF prop.ref # <<>>
                    THEN Built(<< <<p, getRefType(prop.ref)>> >>,
                               {referenceName(prop.ref)})
                    ELSE IF prop.type = "" THEN BuildRaise("KeyError", {})
                    ELSE IF prop.type = "array"
                         THEN LET a == buildArray(prop) IN
                              IF a.err # "" THEN a
                              ELSE Built(<< <<p, a.val>> >>, a.refs)
                    ELSE IF prop.type = "object"
                         THEN buildObject(prop, p)
                    ELSE LET t == objType(prop) IN
                         IF t.err # "" THEN t
                         ELSE Built(<< <<p, t.val>> >>, {})
         IN  IF one.err # ""
             THEN BuildRaise(one.err, acc.refs \cup one.refs)
             ELSE buildProperties(props, i + 1,
                      Built(acc.val \o one.val, acc.refs \cup one.refs))

buildObject(node, name) ==
    LET props == node.properties
        pprops == node.patternProperties
        struct == IF props # <<>>
                  THEN buildProperties(props, 1, Built(<<>>, {}))
                  ELSE Built(<<>>, {})
    IN  IF struct.err # "" THEN struct
        ELSE IF pprops = <<>> THEN struct
        ELSE IF ~HasKey(pprops, ".*")
             THEN BuildRaise("ValueError", struct.refs)
        ELSE LET pprop == Get(pprops, ".*") IN
             IF pprop.ref # <<>>
             THEN Built(Append(struct.val,
                               <<name, MappingOf(getRefType(pprop.ref))>>),
                        struct.refs \cup {referenceName(pprop.ref)})
             ELSE IF pprop.type = ""
                  THEN BuildRaise("KeyError", struct.refs)
             ELSE IF pprop.type = "array"
                  THEN LET a == buildArray(pprop) IN
                       IF a.err # ""
                       THEN BuildRaise(a.err, struct.refs \cup a.refs)
                       ELSE Built(Append(struct.val, <<name, a.val>>),
                                  struct.refs \cup a.refs)
             ELSE IF pprop.type \notin DOMAIN SCHEMA_TO_PYTHON
                  THEN BuildRaise("KeyError", struct.refs)
                  ELSE Built(Append(struct.val,
                                 <<name, MappingOf(SCHEMA_TO_PYTHON[pprop.type])>>),
                             struct.refs)

----------------------------------------------------------------------------
(* Args *)

\* The list an Args holds, or the exception its constructor raised.
ArgsList(list) == [err |-> "", list |-> list]
ArgsRaise(e) == [err |-> e, list |-> <<>>]

\* issubclass(kind, (typing.Sequence, typing.Mapping)).  Under the typing
\* module of Python 3.5.0-3.5.2, which the code is written for (it uses
\* typing.GenericMeta and takes a TypeVar for a class), Any passes every
\* generic's subclass check and a TypeVar passes none.
IsSequenceOrMapping(kind) == IsGeneric(kind) \/ kind = <<"Any">>

\* Args.do_explode: whether the single field is replaced by Args(kind)
do_explode(kind) ==
    IF kind \in basic_types THEN FALSE
    ELSE ~IsSequenceOrMapping(kind)

\* Args.__init__; depth counts the nested constructor calls, and the
\* interpreter raises RecursionError beyond its recursion limit.  A chain of
\* distinct types is at most Cardinality(TypeNames) calls deep, which is
\* below RecursionLimit.
RECURSIVE Args(_, _, _, _)
Args(reg, typs, defs, depth) ==
    IF depth > RecursionLimit THEN ArgsRaise("RecursionError")
    ELSE IF defs = <<>> THEN ArgsList(<<>>)
    ELSE IF ~IsTypeVar(defs) \/ Tail(defs) \notin typs
         THEN ArgsRaise("KeyError")
    ELSE LET got == getObj(reg, Tail(defs), NoVersion) IN
         IF got.err # "" THEN ArgsRaise(got.err)
         ELSE IF got.none THEN ArgsRaise("TypeError")
         ELSE LET rtypes == got.object IN
              IF Len(rtypes) = 1 /\ do_explode(rtypes[1][2])
              THEN Args(reg, typs, rtypes[1][2], depth + 1)
              ELSE ArgsList(rtypes)

\* Args._get_arg_str(False, False): the host identifiers, in order
ArgNames(args) == [i \in 1..Len(args) |-> name_to_py(args[i][1])]

PyToSchemaMapping(args) ==
    [h \in {name_to_py(args[i][1]) : i \in DOMAIN args} |->
        args[SetMax({i \in DOMAIN args : name_to_py(args[i][1]) = h})][1]]

\* SchemaToPyMapping that forgets the suffix of reserved words
SchemaToPyMappingNoSuffix(args) ==
    [n \in {args[i][1] : i \in DOMAIN args} |->
        MapChars(MapChars(n, TRUE), FALSE)]

SchemaToPyMapping(args) ==
    [n \in {args[i][1] : i \in DOMAIN args} |-> name_to_py(n)]

----------------------------------------------------------------------------
(* Synthesized classes and stubs *)

self == <<"s", "e", "l", "f">>

\* compile()/exec() of a generated `def f(self, a, b, ...)`: a parameter name
\* given twice is a SyntaxError
DuplicateArgument(names) ==
    LET params == <<self>> \o names IN
    \E i, j \in DOMAIN params : i # j /\ params[i] = params[j]

\* The class that buildTypes generates for `name` from its Args
RecordClass(name, args) ==
    [name |-> name, init |-> ArgNames(args),
     toSchema |-> PyToSchemaMapping(args), toPy |-> SchemaToPyMapping(args),
     methods |-> <<>>]

\* The class that buildFacade makes, with the stubs buildMethods sets on it
FacadeClass(name, methods) ==
    [name |-> name, init |-> <<>>, toSchema |-> <<>>, toPy |-> <<>>,
     methods |-> methods]

\* The function object makeFunc returns, or the exception it raised.  The
\* function takes `args` and files each under toschema[arg] in Params.
makeFunc(reg, typs, name, params, res) ==
    LET args == Args(reg, typs, params, 1) IN
    IF args.err # "" THEN [err |-> args.err, func |-> <<>>]
    ELSE IF DuplicateArgument(ArgNames(args.list))
         THEN [err |-> "SyntaxError", func |-> <<>>]
         ELSE [err |-> "",
               func |-> [name |-> name, args |-> ArgNames(args.list),
                         toschema |-> PyToSchemaMapping(args.list)]]

\* The keys of the Params mapping that the stub `func` puts in its envelope
EnvelopeParams(func) == {func.toschema[func.args[i]] : i \in DOMAIN func.args}

----------------------------------------------------------------------------
(* Type._map and Type.from_json *)

\* What a stub returns: an exception, None, or a record of class cls built
\* from the payload `data` (the set of the payload's keys).
MapNone == [err |-> "", none |-> TRUE, cls |-> <<>>, data |-> {}]
MapRaise(e) == [err |-> e, none |-> TRUE, cls |-> <<>>, data |-> {}]
MapRecord(cls, data) == [err |-> "", none |-> FALSE, cls |-> cls, data |-> data]

\* cls(**data): every parameter of __init__ is required and no other keyword
\* is accepted
from_json(cls, data) ==
    IF data = {cls.init[i] : i \in DOMAIN cls.init}
    THEN MapRecord(cls.name, data)
    ELSE MapRaise("TypeError")

\* reply: key -> payload; method: the function object of the stub
_map(clss, reply, method) ==
    IF DOMAIN reply = {} THEN MapNone
    ELSE IF "Error" \in DOMAIN reply
         THEN IF nError \notin DOMAIN clss
              THEN MapRaise("KeyError")
              ELSE from_json(clss[nError], reply["Error"])
    ELSE IF "Response" \in DOMAIN reply
         THEN IF "__return_type__" \notin DOMAIN method
              THEN MapRaise("AttributeError")
              ELSE from_json(method["__return_type__"], reply["Response"])
    ELSE MapRaise("UnboundLocalError")

----------------------------------------------------------------------------
(* sorted() *)

\* ord(), on the characters the model uses
Ord(c) ==
    CASE c = "-" -> 45 [] c = "A" -> 65 [] c = "B" -> 66 [] c = "E" -> 69
      [] c = "F" -> 70 [] c = "I" -> 73 [] c = "M" -> 77 [] c = "_" -> 95
      [] c = "a" -> 97 [] c = "b" -> 98 [] c = "d" -> 100 [] c = "e" -> 101
      [] c = "i" -> 105 [] c = "l" -> 108 [] c = "o" -> 111 [] c = "r" -> 114
      [] c = "s" -> 115 [] c = "x" -> 120 [] c = "y" -> 121

\* s < t for two str
RECURSIVE StrLess(_, _)
StrLess(s, t) ==
    IF t = <<>> THEN FALSE
    ELSE IF s = <<>> THEN TRUE
    ELSE IF Head(s) = Head(t) THEN StrLess(Tail(s), Tail(t))
    ELSE Ord(Head(s)) < Ord(Head(t))

RECURSIVE sorted(_)
sorted(S) ==
    IF S = {} THEN <<>>
    ELSE LET m == CHOOSE x \in S : \A y \in S : x = y \/ StrLess(x, y)
         IN  <<m>> \o sorted(S \ {m})

----------------------------------------------------------------------------
(* buildMethods *)

\* _buildMethod and makeFunc for the methods names[i..], in order; acc holds
\* the handles of _types and the functions set on the class so far.  A method
\* is [Params, Result], each a "$ref" string or <<>> when the key is absent.
RECURSIVE buildMethods(_, _, _, _, _)
buildMethods(reg, properties, names, i, acc) ==
    IF i > Len(names) THEN acc
    ELSE LET name == names[i]
             method == properties[name]
             params == IF method.Params # <<>>
                       THEN getRefType(method.Params) ELSE <<>>
             res == IF method.Result # <<>>
                    THEN getRefType(method.Result) ELSE <<>>
             typs == acc.types
                     \cup (IF method.Params # <<>>
                           THEN {referenceName(method.Params)} ELSE {})
                     \cup (IF method.Result # <<>>
                           THEN {referenceName(method.Result)} ELSE {})
             made == makeFunc(reg, typs, name, params, res)
         IN  IF made.err # ""
             THEN [err |-> made.err, types |-> typs, methods |-> acc.methods]
             ELSE buildMethods(reg, properties, names, i + 1,
                      [err |-> "", types |-> typs,
                       methods |-> [m \in (DOMAIN acc.methods) \cup {name} |->
                                       IF m = name THEN made.func
                                       ELSE acc.methods[m]]])

----------------------------------------------------------------------------
(* The documents generate_facacdes is given *)

nF == <<"F">>
nM == <<"M">>
fa == <<"a">>
fB == <<"B">>
fx == <<"x">>
fy == <<"y">>

\* Schema.__init__
Schema(name, version, definitions, properties) ==
    [name |-> name, version |-> version, definitions |-> definitions,
     properties |-> properties]

\* Bodies of definitions: objects of basic, referenced, array, nested and
\* pattern fields, and definitions that are no object
ObjectNodes ==
    { Object(<<>>),
      Object(<< <<fa, Prim("string")>> >>),
      Object(<< <<fa, Prim("string")>>, <<fB, Prim("integer")>> >>),
      Object(<< <<fa, Prim("null")>> >>),
      Object(<< <<fa, Array(Prim("string"))>> >>),
      Object(<< <<fa, Object(<< <<fx, Prim("boolean")>>,
                                <<fy, Prim("object")>> >>)>> >>),
      Object(<< <<nError, RefNode(nError)>>, <<fx, RefNode(nB)>> >>),
      Object(<< <<fx, RefNode(nA)>>, <<fy, RefNode(nB)>> >>) }
    \cup { Object(<< <<fx, RefNode(n)>> >>) : n \in TypeNames }

PatternNodes ==
    { PatternObject(<< <<".*", Prim("string")>> >>),
      PatternObject(<< <<"^a", Prim("string")>> >>),
      PatternObject(<< <<".*", RefNode(nB)>>, <<"^a", Prim("string")>> >>),
      PatternObject(<< <<".*", Array(Array(Prim("number")))>> >>) }

OtherNodes ==
    { Array(Prim("string")), Prim("string"), Prim(""), RefNode(nA) }

NodePool == ObjectNodes \cup PatternNodes \cup OtherNodes

\* The "definitions" of a document: at most n of them, under distinct names
Definitions(pool, n) ==
    UNION { { defs \in [1..k -> TypeNames \X pool] :
                \A i, j \in 1..k : i # j => defs[i][1] # defs[j][1] } :
            k \in 0..n }

\* The "properties" of a facade: no method, or one with or without Params
\* and Result
Properties ==
    { <<>> } \cup
    { (nM :> [Params |-> p, Result |-> r]) :
        p \in {<<>>, Ref(nA)}, r \in {<<>>, Ref(nB)} }

\* One facade, any definitions
Documents ==
    { << Schema(nF, 1, defs, props) >> :
        defs \in Definitions(NodePool, MaxDefs), props \in Properties }

\* Two facades, of any two versions, one definition each
VersionedSchemas ==
    { Schema(nF, v, defs, <<>>) :
        v \in Versions,
        defs \in Definitions({Object(<< <<fa, Prim("string")>> >>),
                              Object(<< <<fB, Prim("integer")>> >>)}, 1) }

VersionedDocuments == { <<s, t>> : s, t \in VersionedSchemas }

\* The replies of the transport: a mapping of some of these keys to a payload,
\* itself a mapping of which only the keys matter
ReplyKeys == {"Error", "Response", "Other"}
Payloads == { {}, {fa}, {fa, fB}, {fa, <<"b">>} }
Replies == { [k \in K |-> data] : K \in SUBSET ReplyKeys, data \in Payloads }

----------------------------------------------------------------------------
(* generate_facacdes *)

Unbound == [bound |-> FALSE, val |-> <<>>]
NoCall == [op |-> "", name |-> <<>>, version |-> NoVersion, obj |-> <<>>,
           value |-> LookupNone]
NoRet == [facade |-> <<>>, request |-> <<>>, params |-> {}, reply |-> <<>>,
          value |-> MapNone]

Init ==
    /\ registry = <<>>
    /\ types = {}
    /\ classes = <<>>
    /\ schemas = <<>>
    /\ pc = "start"
    /\ si = 0
    /\ di = 0
    /\ result = Unbound
    /\ kinds = <<>>
    /\ ki = 0
    /\ err = ""
    /\ call = NoCall
    /\ ret = NoRet
    /\ calls = 0

\* An exception leaves generate_facacdes
Abort(e) ==
    /\ pc' = "error"
    /\ err' = e

\* schemas = [Schema(s) for s in schemas], and the first loop is entered
Read(docs) ==
    /\ schemas' = docs
    /\ pc' = IF docs = <<>> THEN "done" ELSE "buildDefinitions"
    /\ si' = 1
    /\ di' = 1
    /\ result' = Unbound
    /\ UNCHANGED <<registry, types, classes, kinds, ki, err, call, ret, calls>>

Load ==
    /\ pc = "start"
    /\ \E docs \in Documents \cup VersionedDocuments : Read(docs)

\* Schema.deref of a definition: the node, or the KeyError of
\* resolveDefinition
deref(schema, prop) ==
    IF prop.ref = <<>> THEN [err |-> "", node |-> prop]
    ELSE IF ~HasKey(schema.definitions, referenceName(prop.ref))
         THEN [err |-> "KeyError", node |-> prop]
         ELSE [err |-> "",
               node |-> Get(schema.definitions, referenceName(prop.ref))]

\* One turn of the loop of Schema.buildDefinitions
BuildDefinition ==
    /\ pc = "buildDefinitions"
    /\ di <= Len(schemas[si].definitions)
    /\ LET schema == schemas[si]
           d == schema.definitions[di][1]
           data == schema.definitions[di][2]
           target == deref(schema, data)
           kind == target.node.type
           built == IF kind = "object" THEN buildObject(target.node, d)
                    ELSE Built(<<>>, {})
           res == IF kind = "object" THEN [bound |-> TRUE, val |-> built.val]
                  ELSE result
       IN  IF d \in DOMAIN registry
           THEN /\ di' = di + 1
                /\ UNCHANGED <<registry, types, result, pc, err>>
           ELSE IF target.err # ""
           THEN /\ Abort(target.err)
                /\ UNCHANGED <<registry, types, result, di>>
           ELSE IF built.err # ""
           THEN /\ Abort(built.err)
                /\ types' = types \cup built.refs
                /\ UNCHANGED <<registry, result, di>>
           ELSE IF ~res.bound
           THEN /\ Abort("UnboundLocalError")
                /\ UNCHANGED <<registry, types, result, di>>
           ELSE /\ registry' = register(registry, d, schema.version, res.val)
                /\ types' = types \cup built.refs
                /\ result' = res
                /\ di' = di + 1
                /\ UNCHANGED <<pc, err>>
    /\ UNCHANGED <<classes, schemas, si, kinds, ki, call, ret, calls>>

\* buildDefinitions returns and buildTypes sorts the handles of _types
BuildDefinitionsReturn ==
    /\ pc = "buildDefinitions"
    /\ di > Len(schemas[si].definitions)
    /\ pc' = "buildTypes"
    /\ kinds' = LET names == sorted(types) IN
                [i \in 1..Len(names) |-> TypeVarOf(names[i])]
    /\ ki' = 1
    /\ UNCHANGED <<registry, types, classes, schemas, si, di, result, err,
                   call, ret, calls>>

\* One turn of the loop of buildTypes
BuildType ==
    /\ pc = "buildTypes"
    /\ ki <= Len(kinds)
    /\ LET kind == kinds[ki]
           name == Tail(kind)
           args == Args(registry, types, kind, 1)
       IN  IF args.err # ""
           THEN /\ Abort(args.err)
                /\ UNCHANGED <<classes, ki>>
           ELSE IF name \in DOMAIN classes
           THEN /\ ki' = ki + 1
                /\ UNCHANGED <<classes, pc, err>>
           ELSE IF DuplicateArgument(ArgNames(args.list))
           THEN /\ Abort("SyntaxError")
                /\ UNCHANGED <<classes, ki>>
           ELSE /\ classes' = [c \in (DOMAIN classes) \cup {name} |->
                                  IF c = name THEN RecordClass(name, args.list)
                                  ELSE classes[c]]
                /\ ki' = ki + 1
                /\ UNCHANGED <<pc, err>>
    /\ UNCHANGED <<registry, types, schemas, si, di, result, kinds, call, ret, calls>>

\* buildTypes returns: the next schema, or the second loop
BuildTypesReturn ==
    /\ pc = "buildTypes"
    /\ ki > Len(kinds)
    /\ IF si < Len(schemas)
       THEN /\ si' = si + 1
            /\ pc' = "buildDefinitions"
            /\ di' = 1
            /\ result' = Unbound
       ELSE /\ si' = 1
            /\ pc' = "buildMethods"
            /\ UNCHANGED <<di, result>>
    /\ UNCHANGED <<registry, types, classes, schemas, kinds, ki, err, call, ret, calls>>

\* One turn of the second loop: buildFacade, buildMethods, classes[name] = cls
BuildFacade ==
    /\ pc = "buildMethods"
    /\ LET schema == schemas[si]
           built == buildMethods(registry, schema.properties,
                                 sorted(DOMAIN schema.properties), 1,
                                 [err |-> "", types |-> types, methods |-> <<>>])
       IN  /\ types' = built.types
           /\ IF built.err # ""
              THEN /\ Abort(built.err)
                   /\ UNCHANGED <<classes, si>>
              ELSE /\ classes' = [c \in (DOMAIN classes) \cup {schema.name} |->
                                     IF c = schema.name
                                     THEN FacadeClass(schema.name, built.methods)
                                     ELSE classes[c]]
                   /\ si' = si + 1
                   /\ pc' = IF si = Len(schemas) THEN "done" ELSE pc
                   /\ err' = err
    /\ UNCHANGED <<registry, schemas, di, result, kinds, ki, call, ret, calls>>

\* A caller invokes a stub of a generated facade; the transport replies
Call ==
    /\ pc = "done"
    /\ calls < MaxCalls
    /\ calls' = calls + 1
    /\ \E f \in DOMAIN classes :
       \E m \in DOMAIN classes[f].methods :
       \E reply \in Replies :
          ret' = [facade |-> f, request |-> m,
                  params |-> EnvelopeParams(classes[f].methods[m]),
                  reply |-> reply,
                  value |-> _map(classes, reply, classes[f].methods[m])]
    /\ UNCHANGED <<registry, types, classes, schemas, pc, si, di, result,
                   kinds, ki, err, call>>

Next ==
    \/ Load
    \/ BuildDefinition
    \/ BuildDefinitionsReturn
    \/ BuildType
    \/ BuildTypesReturn
    \/ BuildFacade
    \/ Call

Spec == Init /\ [][Next]_vars

----------------------------------------------------------------------------
(* The registry used on its own: a client registers and looks up kinds *)

FieldLists ==
    { <<>>, << <<fa, <<"str">> >> >>, << <<fa, <<"str">> >>, <<fB, <<"int">> >> >> }

Register ==
    \E name \in {nA, nB}, version \in Versions, obj \in FieldLists :
        /\ registry' = register(registry, name, version, obj)
        /\ call' = [op |-> "register", name |-> name, version |-> version,
                    obj |-> obj, value |-> LookupNone]
        /\ UNCHANGED <<types, classes, schemas, pc, si, di, result, kinds, ki,
                       err, ret, calls>>

Lookup ==
    \E name \in {nA, nB}, version \in Versions \cup {0, NoVersion} :
        /\ call' = [op |-> "lookup", name |-> name, version |-> version,
                    obj |-> <<>>, value |-> lookup(registry, name, version)]
        /\ UNCHANGED <<registry, types, classes, schemas, pc, si, di, result,
                       kinds, ki, err, ret, calls>>

NextRegistry == Register \/ Lookup

SpecRegistry == Init /\ [][NextRegistry]_vars

----------------------------------------------------------------------------
(* Documents that vary the names of the fields of one record type *)

Chars == {"i", "d", "s", "I", "-", "_"}
Names == UNION { [1..k -> Chars] : k \in 1..MaxNameLen }

\* A definition A of two fields, the second a list of A, and an operation
\* whose Params is A
NameDocuments ==
    { << Schema(nF, 1,
                << <<nA, Object(<< <<p[1], Prim("string")>>,
                                   <<p[2], Array(RefNode(nA))>> >>)>> >>,
                (nM :> [Params |-> Ref(nA), Result |-> <<>>])) >> :
        p \in {q \in Names \X Names : q[1] # q[2]} }

LoadNames ==
    /\ pc = "start"
    /\ \E docs \in NameDocuments : Read(docs)

NextNames ==
    \/ LoadNames
    \/ BuildDefinition
    \/ BuildDefinitionsReturn
    \/ BuildType
    \/ BuildTypesReturn
    \/ BuildFacade

SpecNames == Init /\ [][NextNames]_vars

----------------------------------------------------------------------------
(* Properties *)

\* The node a definition resolves to, and whether it resolves
NodeOf(i, j) == deref(schemas[i], schemas[i].definitions[j][2])
NameOf(i, j) == schemas[i].definitions[j][1]

\* The operation a stub of facade f was made from
Operation(f, m) ==
    LET i == CHOOSE k \in DOMAIN schemas :
                 schemas[k].name = f /\ m \in DOMAIN schemas[k].properties
    IN  schemas[i].properties[m]

\* The field list the registry holds for the type a "$ref" names
Registered(ref) ==
    LET got == lookup(registry, referenceName(ref), NoVersion)
    IN  IF got.err # "" \/ got.none THEN <<>> ELSE got.object

\* The result variants an operation declares, and the first of them that is
\* not named Error
Variants(op) == IF op.Result = <<>> THEN <<>> ELSE Registered(op.Result)
Success(variants) == {i \in DOMAIN variants : variants[i][1] # nError}
FirstSuccess(variants) == variants[SetMax({i \in Success(variants) :
                              \A k \in Success(variants) : i <= k})][2]

\* C1: once (name, v1) is registered, registering (name, v2, obj) with v1 < v2
\* makes lookup(name) give obj and leaves lookup(name, v1) what it was: the
\* entries of the other versions of a name are neither removed nor replaced.
C1_VersionsCoexist ==
    [][ \A v1 \in Versions :
          ( /\ call'.op = "register"
            /\ call'.name \in DOMAIN registry
            /\ v1 \in DOMAIN registry[call'.name]
            /\ v1 < call'.version )
          => /\ lookup(registry', call'.name, NoVersion)
                  = LookupEntry([object |-> call'.obj])
             /\ lookup(registry', call'.name, v1)
                  = lookup(registry, call'.name, v1) ]_vars

\* C2: when the Result type of the operation declares a variant that is not
\* Error and is a synthesized record type, a reply with a Response key and no
\* Error key makes the stub return, without failing, a record of the first
\* declared non-Error variant built from the Response payload.
C2_ResponseGivesFirstSuccessVariant ==
    LET variants == Variants(Operation(ret.facade, ret.request)) IN
    ( /\ calls > 0
      /\ "Response" \in DOMAIN ret.reply
      /\ "Error" \notin DOMAIN ret.reply
      /\ Success(variants) # {}
      /\ IsTypeVar(FirstSuccess(variants))
      /\ Tail(FirstSuccess(variants)) \in DOMAIN classes )
    => /\ ret.value.err = ""
       /\ ~ret.value.none
       /\ TypeVarOf(ret.value.cls) = FirstSuccess(variants)
       /\ ret.value.data = ret.reply["Response"]

\* C3: whatever result variants the operation declares, a reply with an Error
\* key makes the stub return a record of the Error type built from the Error
\* payload.  Stated for the replies that suit the Error type best: the type is
\* synthesized and the payload holds exactly the wire names of its fields.
C3_ErrorGivesErrorRecord ==
    ( /\ calls > 0
      /\ "Error" \in DOMAIN ret.reply
      /\ nError \in DOMAIN classes
      /\ ret.reply["Error"] = DOMAIN classes[nError].toPy )
    => /\ ret.value.err = ""
       /\ ~ret.value.none
       /\ ret.value.cls = nError
       /\ ret.value.data = ret.reply["Error"]

\* C4: a reply with neither an Error nor a Response key, empty or not, makes
\* the stub return None: it neither raises nor builds a record.
C4_NeitherKeyGivesNone ==
    (calls > 0 /\ (DOMAIN ret.reply) \cap {"Error", "Response"} = {})
    => ret.value = MapNone

\* C5: the stub of an operation with Params type P takes one argument per
\* field of P's registered field list, in that order, and its envelope's
\* Params has exactly the wire names of those fields as keys, also when P has
\* a single field that refers to another record type.
C5_OneArgumentPerParamsField ==
    pc = "done" =>
    \A f \in DOMAIN classes : \A m \in DOMAIN classes[f].methods :
        LET op == Operation(f, m)
            fields == Registered(op.Params)
            func == classes[f].methods[m]
        IN  op.Params # <<>>
            => /\ func.args = ArgNames(fields)
               /\ EnvelopeParams(func) = {fields[i][1] : i \in DOMAIN fields}

\* C6: an object whose patternProperties holds a key other than ".*", with or
\* without ".*" beside it, is not compiled: no field list is registered for it.
C6_UnsupportedPatternFails ==
    \A i \in DOMAIN schemas : \A j \in DOMAIN schemas[i].definitions :
        LET target == NodeOf(i, j) IN
        ( /\ target.err = ""
          /\ target.node.type = "object"
          /\ \E k \in DOMAIN target.node.patternProperties :
                 target.node.patternProperties[k][1] # ".*" )
        => NameOf(i, j) \notin DOMAIN registry

\* C7: a definition whose kind is not object (an array, a string, no type) is
\* never entered in the registry.
C7_NonObjectNeverRegistered ==
    \A i \in DOMAIN schemas : \A j \in DOMAIN schemas[i].definitions :
        LET target == NodeOf(i, j) IN
        (target.err = "" /\ target.node.type # "object")
        => NameOf(i, j) \notin DOMAIN registry

\* C9: after the documents are compiled, the registry holds, for every object
\* definition N of a document whose version v no other document shares, the
\* field list compiled from that document's definition of N under (N, v).
C9_GuardIsPerNameAndVersion ==
    pc \in {"buildMethods", "done"} =>
    \A i \in DOMAIN schemas : \A j \in DOMAIN schemas[i].definitions :
        LET target == NodeOf(i, j) IN
        ( /\ \A k \in DOMAIN schemas :
                 k # i => schemas[k].version # schemas[i].version
          /\ target.err = ""
          /\ target.node.type = "object" )
        => lookup(registry, NameOf(i, j), schemas[i].version)
             = LookupEntry([object |-> buildObject(target.node, NameOf(i, j)).val])

\* C10: the compilation pass never runs into the interpreter's recursion
\* limit, whatever references the definitions hold to themselves or to each
\* other: no reference is expanded without bound.
C10_ReferencesNeverExpandWithoutBound == err # "RecursionError"

\* C8: the two translation tables of every synthesized class are inverses of
\* each other: host -> wire -> host and wire -> host -> wire both give back
\* the name they start from.
C8_TablesAreInverse ==
    \A c \in DOMAIN classes :
        LET cls == classes[c] IN
        /\ \A h \in DOMAIN cls.toSchema : cls.toPy[cls.toSchema[h]] = h
        /\ \A n \in DOMAIN cls.toPy : cls.toSchema[cls.toPy[n]] = n

\* A record type is synthesized whose field `Id` collides with a built-in: it
\* is `id_` in the host language and both tables hold it.
C8_Witness ==
    \E c \in DOMAIN classes :
        /\ <<"I", "d">> \in DOMAIN classes[c].toPy
        /\ classes[c].toPy[<<"I", "d">>] = <<"i", "d", "_">>
        /\ <<"i", "d", "_">> \in DOMAIN classes[c].toSchema
        /\ Len(classes[c].init) = 2

====
